---- MODULE Spec2Model ----
(***************************************************************************)
(* A model of the BrainVoyager header engine of nibabel                    *)
(* (src/nibabel/brainvoyager/bv.py): the string scanner readCString, the   *)
(* descriptor-driven decoder parse_BV_header, the encoder pack_BV_header,  *)
(* the size calculator calc_BV_header_size, the structural updater         *)
(* update_BV_header and the default synthesizer _proto2default, together   *)
(* with the way BvVmpHeader.set_data_shape (bv_vmp.py) drives the updater. *)
(*                                                                         *)
(* Python values are tagged records, so that values of different Python    *)
(* types can be compared the way Python's == compares them:                *)
(*   [int |-> i]   an integer          [str |-> s]  a byte string (Seq)    *)
(*   [list |-> l]  a list of mappings  [dict |-> <<>>]  the empty dict {}  *)
(* An OrderedDict is a sequence of entries [k |-> name, v |-> value] in    *)
(* insertion order.  A raised exception is the name of its class in the    *)
(* err field of an operation's result; "" means normal completion.         *)
(* The module is Python 2 code (str is a byte string); byte strings are    *)
(* sequences of numbers 0..255.  The float code 'f' is not modelled.       *)
(***************************************************************************)
EXTENDS Integers, Sequences, FiniteSets, TLC

VARIABLES hdr_dict_proto, fileobj, hdrDict, hdrDict_old, copy_kind,
          hdr_before, binaryblock, hdr_size, reparsed, str_list, call, err,
          pc, n_edits, h2

vars == <<hdr_dict_proto, fileobj, hdrDict, hdrDict_old, copy_kind,
          hdr_before, binaryblock, hdr_size, reparsed, str_list, call, err,
          pc, n_edits, h2>>

-----------------------------------------------------------------------------
(* Bounds of the model *)

\* longest byte stream offered to the decoder
MaxLen == 5
\* longest byte stream a mapping is decoded from before it is edited
MaxStart == 3
\* largest value an edit stores in a repeat-count or discriminant field
MaxCount == 3
\* number of edit-then-reconcile rounds applied to one mapping
MaxEdits == 2
\* furthest position in the stream at which a header begins
MaxOffset == 2
\* longest text file offered to the text-header parser
MaxTextLen == 5
\* largest number of strings asked of the string scanner
MaxStrings == 2
\* longest byte stream the string scanner is called on
MaxScanLen == 4

\* the byte values streams are made of (255 is -1 in the signed codes)
Bytes == {0, 1, 255}

-----------------------------------------------------------------------------
(* Python values *)

None == [none |-> TRUE]
IntV(i) == [int |-> i]
StrV(s) == [str |-> s]
ListV(l) == [list |-> l]
EmptyDict == [dict |-> <<>>]

IsInt(v) == DOMAIN v = {"int"}
IsStr(v) == DOMAIN v = {"str"}
IsList(v) == DOMAIN v = {"list"}

RECURSIVE SeqSum(_)
SeqSum(s) == IF s = <<>> THEN 0 ELSE Head(s) + SeqSum(Tail(s))

Min(a, b) == IF a < b THEN a ELSE b

(* OrderedDict: `k in d`, d[k], d[k] = v (in place when k is present, at the
   end otherwise) and del d[k] *)
Has(d, k) == \E i \in 1..Len(d) : d[i].k = k
Get(d, k) == d[CHOOSE i \in 1..Len(d) : d[i].k = k].v
Put(d, k, v) ==
    IF Has(d, k)
    THEN [i \in 1..Len(d) |-> IF d[i].k = k THEN [k |-> k, v |-> v] ELSE d[i]]
    ELSE Append(d, [k |-> k, v |-> v])
Del(d, k) == SelectSeq(d, LAMBDA e : e.k # k)
Keys(d) == [i \in 1..Len(d) |-> d[i].k]

-----------------------------------------------------------------------------
(* Descriptors: a tuple of (name, format, def_or_name).  format is a pack
   code [code |-> c] or a nested descriptor [proto |-> p]
   (isinstance(format, tuple)); def_or_name is a default [default |-> v], a
   conditional tuple [cond |-> <<default, c_fields_name, c_fields_value>>]
   (isinstance(def_or_name, tuple)) or a count field [n_fields_name |-> n]. *)

Field(name, format, def_or_name) ==
    [name |-> name, format |-> format, def_or_name |-> def_or_name]
Code(c) == [code |-> c]
Nested(p) == [proto |-> p]
Default(v) == [default |-> v]
Cond(d, name, value) == [cond |-> <<d, name, value>>]
Count(name) == [n_fields_name |-> name]

IsZ(format) == format = Code("z")
IsTuple(x) == DOMAIN x \in {{"proto"}, {"cond"}}

(* struct.calcsize('<' + format) for the integer codes *)
calcsize(format) ==
    CASE format.code \in {"b", "B"} -> 1
      [] format.code = "h" -> 2
      [] format.code \in {"i", "I"} -> 4

Signed(format) == format.code \in {"b", "h", "i"}

RECURSIVE Pow256(_)
Pow256(n) == IF n = 0 THEN 1 ELSE 256 * Pow256(n - 1)

RECURSIVE LittleEndian(_)
LittleEndian(bs) ==
    IF bs = <<>> THEN 0 ELSE Head(bs) + 256 * LittleEndian(Tail(bs))

\* a ToBytes that writes the most significant byte first
RECURSIVE ToBytes_msb_first(_, _)
ToBytes_msb_first(u, n) ==
    IF n = 0 THEN <<>>
    ELSE Append(ToBytes_msb_first(u \div 256, n - 1), u % 256)

(* the n bytes of u, least significant first: u modulo 256^n, which for a
   negative u is its two's complement *)
RECURSIVE ToBytes(_, _)
ToBytes(u, n) ==
    IF n = 0 THEN <<>> ELSE <<u % 256>> \o ToBytes(u \div 256, n - 1)

(* struct.unpack('<' + format, bytes)[0]: struct.error unless bytes has
   exactly calcsize(format) bytes.  The last byte is the most significant
   one and, in a signed code, counts as negative from 128 on (two's
   complement). *)
unpack(format, bs) ==
    IF Len(bs) # calcsize(format)
    THEN [err |-> "struct.error", value |-> None]
    ELSE LET n == calcsize(format)
             top == IF Signed(format) /\ bs[n] >= 128 THEN bs[n] - 256
                    ELSE bs[n]
         IN [err |-> "",
             value |-> IntV(LittleEndian(SubSeq(bs, 1, n - 1))
                            + Pow256(n - 1) * top)]

\* a struct.pack that wraps a value modulo 2^width instead of raising
pack_wrapping(format, value) ==
    LET m == Pow256(calcsize(format))
    IN IF ~IsInt(value) THEN [err |-> "struct.error", part |-> <<>>]
       ELSE [err |-> "", part |-> ToBytes(value.int % m, calcsize(format))]

(* struct.pack('<' + format, value): struct.error when value is no integer
   or lies outside the range of the code, which is when its most significant
   byte (value \div 256^(n-1), rounded down) is outside -128..127 for a
   signed code and outside 0..255 for an unsigned one.  ToBytes of a
   negative value gives its two's complement bytes (\div rounds down and %
   is never negative). *)
pack(format, value) ==
    LET n == calcsize(format)
        top == value.int \div Pow256(n - 1)
        lo == IF Signed(format) THEN -128 ELSE 0
        hi == IF Signed(format) THEN 127 ELSE 255
    IN IF ~IsInt(value) THEN [err |-> "struct.error", part |-> <<>>]
       ELSE IF top < lo \/ top > hi
       THEN [err |-> "struct.error", part |-> <<>>]
       ELSE [err |-> "", part |-> ToBytes(value.int, n)]

-----------------------------------------------------------------------------
(* File objects: [data |-> bytes, pos |-> cursor, moved_back |-> whether an
   operation on the object has left the cursor before the place it was
   at].  f.read(n) returns the bytes from the cursor, at most n, and moves
   the cursor past them; a cursor beyond the end (after a seek) reads
   nothing. *)
BytesIO(data, pos) == [data |-> data, pos |-> pos, moved_back |-> FALSE]


\* a read that leaves the cursor where it was
read_pos_stay(f, n) == f.pos

read_data(f, n) ==
    IF f.pos >= Len(f.data) THEN <<>>
    ELSE SubSeq(f.data, f.pos + 1, Min(f.pos + n, Len(f.data)))
read_pos(f, n) ==
    IF f.pos >= Len(f.data) THEN f.pos ELSE Min(f.pos + n, Len(f.data))
seek(f, p) == [f EXCEPT !.pos = p, !.moved_back = f.moved_back \/ p < f.pos]

(* data.split('\x00'): k zero bytes give k + 1 pieces *)
RECURSIVE split(_, _)
split(data, cur) ==
    IF data = <<>> THEN <<cur>>
    ELSE IF Head(data) = 0 THEN <<cur>> \o split(Tail(data), <<>>)
    ELSE split(Tail(data), Append(cur, Head(data)))

\* the default of readCString's bufsize parameter
bufsize_default == 1000

(* readCString(f, nStrings, bufsize, startPos, strip, rewind); startPos is
   None or [int |-> p].  The result holds the exception raised ("" if none),
   the file object as the call leaves it and the returned str_list. *)
\* a readCString_offset that does not count the terminators
readCString_offset_strings(lines, nStrings) ==
    SeqSum([s \in 1..nStrings |-> Len(lines[s])])

\* lines 92-94: offset += len(lines[s]) + 1 for each returned string
readCString_offset(lines, nStrings) ==
    SeqSum([s \in 1..nStrings |-> Len(lines[s]) + 1])

\* a rewind that leaves the cursor where the read left it
readCString_rewind_stay(f, currentPos) == f

\* lines 89-90: if rewind: f.seek(currentPos)
readCString_rewind(f, currentPos) == seek(f, currentPos)

readCString(f, nStrings, bufsize, startPos, strip, rewind) ==
    LET currentPos == f.pos
        suffix == IF strip THEN <<>> ELSE <<0>>
        f1 == IF startPos # None THEN seek(f, startPos.int) ELSE f
        data == read_data(f1, bufsize)
        f2 == seek(f1, read_pos(f1, bufsize))
        lines == split(data, <<>>)
    IN IF nStrings > Len(lines)
       THEN \* lines[s] raises IndexError: in the offset loop before the
            \* seek, or (rewind) in the final loop after the seek back
            [err |-> "IndexError",
             f |-> IF rewind THEN readCString_rewind(f2, currentPos) ELSE f2,
             str_list |-> <<>>]
       ELSE [err |-> "",
             f |-> IF rewind THEN readCString_rewind(f2, currentPos)
                   ELSE seek(f2, currentPos
                                 + readCString_offset(lines, nStrings)),
             str_list |-> [s \in 1..nStrings |-> lines[s] \o suffix]]

-----------------------------------------------------------------------------
(* The text files of parse_notBin_BV_header: byte strings of the characters
   below.  fileobj.readline() returns the bytes from the cursor up to and
   including the next line feed (or up to the end of the file) and moves the
   cursor past them; at the end of the file it returns '' and moves
   nothing. *)
LF == 10
CR == 13
Space == 32
Quote == 34
Digit1 == 49
Colon == 58
LetterA == 97

readline(f) ==
    IF f.pos >= Len(f.data) THEN [line |-> <<>>, f |-> f]
    ELSE LET ends == {k \in (f.pos + 1)..Len(f.data) : f.data[k] = LF}
             last == IF ends = {} THEN Len(f.data)
                     ELSE CHOOSE k \in ends : \A j \in ends : k <= j
         IN [line |-> SubSeq(f.data, f.pos + 1, last), f |-> seek(f, last)]

\* line.find(c) == -1
find_fails(line, c) == \A k \in 1..Len(line) : line[k] # c

\* line.rstrip(c)
RECURSIVE rstrip(_, _)
rstrip(line, c) ==
    IF line # <<>> /\ line[Len(line)] = c
    THEN rstrip(SubSeq(line, 1, Len(line) - 1), c)
    ELSE line

\* line.split(sep): the pieces between the separators
RECURSIVE split_on(_, _, _)
split_on(line, sep, cur) ==
    IF line = <<>> THEN <<cur>>
    ELSE IF Head(line) = sep THEN <<cur>> \o split_on(Tail(line), sep, <<>>)
    ELSE split_on(Tail(line), sep, Append(cur, Head(line)))

\* s.replace(c, '')
remove(str, c) == SelectSeq(str, LAMBDA x : x # c)

(* int(s): surrounding white space is dropped; what is left must be decimal
   digits (here the digit 1), at least one, or ValueError is raised *)
RECURSIVE strip_space(_)
strip_space(str) ==
    IF str # <<>> /\ Head(str) \in {LF, CR, Space}
    THEN strip_space(Tail(str))
    ELSE IF str # <<>> /\ str[Len(str)] \in {LF, CR, Space}
    THEN strip_space(SubSeq(str, 1, Len(str) - 1))
    ELSE str

RECURSIVE decimal(_, _)
decimal(digits, acc) ==
    IF digits = <<>> THEN acc
    ELSE decimal(Tail(digits), 10 * acc + (Head(digits) - 48))

int(str) ==
    LET digits == strip_space(str)
    IN IF digits = <<>> \/ \E k \in 1..Len(digits) : digits[k] # Digit1
       THEN [err |-> "ValueError", value |-> None]
       ELSE [err |-> "", value |-> IntV(decimal(digits, 0))]

\* line 106: line == '\r\n' or line.find(':') == -1
skip_line(line) == line = <<CR, LF>> \/ find_fails(line, Colon)

(* lines 108-119: the value of a field from its 'key: value' line; a nested
   format raises (a string is raised, which is a TypeError) *)
text_value(format, line) ==
    IF IsTuple(format) THEN [err |-> "TypeError", value |-> None]
    ELSE LET token == split_on(rstrip(rstrip(line, LF), CR), Colon, <<>>)
             token1 == remove(remove(token[2], Space), Quote)
         IN IF format = Code("h") THEN int(token1)
            ELSE [err |-> "", value |-> StrV(token1)]

-----------------------------------------------------------------------------
\* a count lookup that asks the parent mapping first
n_values_of_parent_first(def_or_name, hdr_dict, parent_hdr_dict) ==
    LET name == def_or_name.n_fields_name
        found == IF parent_hdr_dict # None /\ Has(parent_hdr_dict, name)
                 THEN [err |-> "", v |-> Get(parent_hdr_dict, name)]
                 ELSE IF Has(hdr_dict, name)
                 THEN [err |-> "", v |-> Get(hdr_dict, name)]
                 ELSE [err |-> "KeyError", v |-> None]
    IN IF found.err # "" THEN [err |-> found.err, n |-> 0]
       ELSE IF ~IsInt(found.v) THEN [err |-> "TypeError", n |-> 0]
       ELSE [err |-> "", n |-> found.v.int]

(* The repeat count of a nested group: the local mapping's field when the
   local mapping has it, else the parent's (parent None: TypeError; no such
   field: KeyError); range(n_values) needs an integer. *)
n_values_of(def_or_name, hdr_dict, parent_hdr_dict) ==
    LET name == def_or_name.n_fields_name
        found == IF Has(hdr_dict, name)
                 THEN [err |-> "", v |-> Get(hdr_dict, name)]
                 ELSE IF parent_hdr_dict = None
                 THEN [err |-> "TypeError", v |-> None]
                 ELSE IF ~Has(parent_hdr_dict, name)
                 THEN [err |-> "KeyError", v |-> None]
                 ELSE [err |-> "", v |-> Get(parent_hdr_dict, name)]
    IN IF found.err # "" THEN [err |-> found.err, n |-> 0]
       ELSE IF ~IsInt(found.v) THEN [err |-> "TypeError", n |-> 0]
       ELSE [err |-> "", n |-> found.v.int]

(* hdr_dict[c_fields_name] == c_fields_value of a conditional field *)
cond_test(def_or_name, hdr_dict) ==
    IF ~Has(hdr_dict, def_or_name.cond[2])
    THEN [err |-> "KeyError", holds |-> FALSE]
    ELSE [err |-> "",
          holds |-> Get(hdr_dict, def_or_name.cond[2]) = def_or_name.cond[3]]

(* fileobj.read(calcsize(format)) followed by unpack *)
read_scalar(format, f) ==
    LET u == unpack(format, read_data(f, calcsize(format)))
    IN [err |-> u.err, value |-> u.value,
        f |-> seek(f, read_pos(f, calcsize(format)))]

(* parse_BV_header(hdr_dict_proto, fileobj, parent_hdr_dict): the loop over
   the descriptor from its i-th entry on, hdr_dict holding the fields parsed
   so far; parse_elems is the loop over the elements of one nested group. *)
RECURSIVE parse_from(_, _, _, _, _)
RECURSIVE parse_elems(_, _, _, _, _)

parse_elems(format, n_values, f, value, hdr_dict) ==
    IF n_values <= 0 THEN [err |-> "", value |-> value, f |-> f]
    ELSE LET e == parse_from(format.proto, 1, f, <<>>, hdr_dict)
         IN IF e.err # "" THEN [err |-> e.err, value |-> value, f |-> e.f]
            ELSE parse_elems(format, n_values - 1, e.f,
                             Append(value, e.hdr_dict), hdr_dict)

parse_field(fld, f, hdr_dict, parent_hdr_dict) ==
    IF IsZ(fld.format)
    THEN LET r == readCString(f, 1, bufsize_default, None, TRUE, FALSE)
         IN [err |-> r.err, f |-> r.f,
             value |-> IF r.err = "" THEN StrV(r.str_list[1]) ELSE None]
    ELSE IF IsTuple(fld.format)
    THEN LET c == n_values_of(fld.def_or_name, hdr_dict, parent_hdr_dict)
             r == parse_elems(fld.format, c.n, f, <<>>, hdr_dict)
         IN IF c.err # "" THEN [err |-> c.err, f |-> f, value |-> None]
            ELSE [err |-> r.err, f |-> r.f, value |-> ListV(r.value)]
    ELSE IF IsTuple(fld.def_or_name)
    THEN LET t == cond_test(fld.def_or_name, hdr_dict)
             r == read_scalar(fld.format, f)
         IN IF t.err # "" THEN [err |-> t.err, f |-> f, value |-> None]
            ELSE IF t.holds THEN r
            ELSE [err |-> "", f |-> f, value |-> fld.def_or_name.cond[1]]
    ELSE read_scalar(fld.format, f)

parse_from(proto, i, f, hdr_dict, parent_hdr_dict) ==
    IF i > Len(proto) THEN [err |-> "", hdr_dict |-> hdr_dict, f |-> f]
    ELSE LET r == parse_field(proto[i], f, hdr_dict, parent_hdr_dict)
         IN IF r.err # ""
            THEN [err |-> r.err, hdr_dict |-> hdr_dict, f |-> r.f]
            ELSE parse_from(proto, i + 1, r.f,
                            Put(hdr_dict, proto[i].name, r.value),
                            parent_hdr_dict)

parse_BV_header(proto, f, parent_hdr_dict) ==
    parse_from(proto, 1, f, <<>>, parent_hdr_dict)

-----------------------------------------------------------------------------
(* pack_BV_header(hdr_dict_proto, hdr_dict, parent_hdr_dict): the loop from
   the i-th entry on, binary_parts already joined into block; pack_elems is
   the loop over range(n_values) of one nested group. *)
RECURSIVE pack_from(_, _, _, _, _)
RECURSIVE pack_elems(_, _, _, _, _, _)

pack_elems(format, value, i, n_values, parts, hdr_dict) ==
    IF i >= n_values THEN [err |-> "", part |-> parts]
    ELSE IF ~IsList(value) THEN [err |-> "TypeError", part |-> <<>>]
    ELSE IF i + 1 > Len(value.list) THEN [err |-> "IndexError", part |-> <<>>]
    ELSE LET e == pack_from(format.proto, 1, value.list[i + 1], <<>>, hdr_dict)
         IN IF e.err # "" THEN [err |-> e.err, part |-> <<>>]
            ELSE pack_elems(format, value, i + 1, n_values,
                            parts \o e.block, hdr_dict)

\* a pack_string that forgets the terminator
pack_string_unterminated(value) ==
    IF IsStr(value) THEN [err |-> "", part |-> value.str]
    ELSE [err |-> "TypeError", part |-> <<>>]

\* part = value + b'\x00'
pack_string(value) ==
    IF IsStr(value) THEN [err |-> "", part |-> value.str \o <<0>>]
    ELSE [err |-> "TypeError", part |-> <<>>]

\* a pack_conditional that packs the field whatever the test says
pack_conditional_always(format, value, holds) ==
    pack(format, value)

(* lines 254-258: a conditional field is packed when its test holds and
   skipped (continue) when it does not *)
pack_conditional(format, value, holds) ==
    IF holds THEN pack(format, value) ELSE [err |-> "", part |-> <<>>]

pack_field(fld, hdr_dict, parent_hdr_dict) ==
    IF ~Has(hdr_dict, fld.name) THEN [err |-> "KeyError", part |-> <<>>]
    ELSE LET value == Get(hdr_dict, fld.name)
         IN IF IsZ(fld.format) THEN pack_string(value)
            ELSE IF IsTuple(fld.format)
            THEN LET c == n_values_of(fld.def_or_name, hdr_dict,
                                      parent_hdr_dict)
                 IN IF c.err # "" THEN [err |-> c.err, part |-> <<>>]
                    ELSE pack_elems(fld.format, value, 0, c.n, <<>>, hdr_dict)
            ELSE IF IsTuple(fld.def_or_name)
            THEN LET t == cond_test(fld.def_or_name, hdr_dict)
                 IN IF t.err # "" THEN [err |-> t.err, part |-> <<>>]
                    ELSE pack_conditional(fld.format, value, t.holds)
            ELSE pack(fld.format, value)

pack_from(proto, i, hdr_dict, block, parent_hdr_dict) ==
    IF i > Len(proto) THEN [err |-> "", block |-> block]
    ELSE LET r == pack_field(proto[i], hdr_dict, parent_hdr_dict)
         IN IF r.err # "" THEN [err |-> r.err, block |-> <<>>]
            ELSE pack_from(proto, i + 1, hdr_dict, block \o r.part,
                           parent_hdr_dict)

pack_BV_header(proto, hdr_dict, parent_hdr_dict) ==
    pack_from(proto, 1, hdr_dict, <<>>, parent_hdr_dict)

-----------------------------------------------------------------------------
(* calc_BV_header_size(hdr_dict_proto, hdr_dict, parent_hdr_dict) *)
RECURSIVE calc_from(_, _, _, _, _)
RECURSIVE calc_elems(_, _, _, _, _, _)

calc_elems(format, value, i, n_values, size, hdr_dict) ==
    IF i >= n_values THEN [err |-> "", size |-> size]
    ELSE IF ~IsList(value) THEN [err |-> "TypeError", size |-> 0]
    ELSE IF i + 1 > Len(value.list) THEN [err |-> "IndexError", size |-> 0]
    ELSE LET e == calc_from(format.proto, 1, value.list[i + 1], 0, hdr_dict)
         IN IF e.err # "" THEN [err |-> e.err, size |-> 0]
            ELSE calc_elems(format, value, i + 1, n_values,
                            size + e.size, hdr_dict)

\* a calc_string that forgets the terminator
calc_string_unterminated(value) ==
    IF IsStr(value) THEN [err |-> "", size |-> Len(value.str)]
    ELSE [err |-> "TypeError", size |-> 0]

\* hdr_size += len(value) + 1
calc_string(value) ==
    IF IsStr(value) THEN [err |-> "", size |-> Len(value.str) + 1]
    ELSE IF IsList(value) THEN [err |-> "", size |-> Len(value.list) + 1]
    ELSE IF value = EmptyDict THEN [err |-> "", size |-> 1]
    ELSE [err |-> "TypeError", size |-> 0]

calc_field(fld, hdr_dict, parent_hdr_dict) ==
    IF ~Has(hdr_dict, fld.name) THEN [err |-> "KeyError", size |-> 0]
    ELSE LET value == Get(hdr_dict, fld.name)
         IN IF IsZ(fld.format) THEN calc_string(value)
            ELSE IF IsTuple(fld.format)
            THEN LET c == n_values_of(fld.def_or_name, hdr_dict,
                                      parent_hdr_dict)
                 IN IF c.err # "" THEN [err |-> c.err, size |-> 0]
                    ELSE calc_elems(fld.format, value, 0, c.n, 0, hdr_dict)
            ELSE IF IsTuple(fld.def_or_name)
            THEN LET t == cond_test(fld.def_or_name, hdr_dict)
                 IN IF t.err # "" THEN [err |-> t.err, size |-> 0]
                    ELSE IF t.holds
                    THEN [err |-> "", size |-> calcsize(fld.format)]
                    ELSE [err |-> "", size |-> 0]
            ELSE [err |-> "", size |-> calcsize(fld.format)]

calc_from(proto, i, hdr_dict, hdr_size_acc, parent_hdr_dict) ==
    IF i > Len(proto) THEN [err |-> "", size |-> hdr_size_acc]
    ELSE LET r == calc_field(proto[i], hdr_dict, parent_hdr_dict)
         IN IF r.err # "" THEN [err |-> r.err, size |-> 0]
            ELSE calc_from(proto, i + 1, hdr_dict, hdr_size_acc + r.size,
                           parent_hdr_dict)

calc_BV_header_size(proto, hdr_dict, parent_hdr_dict) ==
    calc_from(proto, 1, hdr_dict, 0, parent_hdr_dict)

-----------------------------------------------------------------------------
(* _proto2default(proto, parent_default_hdr): every name is first entered
   with the placeholder {}, which a conditional field keeps when its test
   fails. *)
RECURSIVE proto2default_from(_, _, _, _)
RECURSIVE proto2default_elems(_, _, _, _)
RECURSIVE proto2default_elems_short(_, _, _, _)

\* a proto2default_elems that synthesizes one element too few
proto2default_elems_short(format, n_values, value, default_hdr) ==
    IF n_values <= 1 THEN [err |-> "", value |-> value]
    ELSE LET e == proto2default_from(format.proto, 1, <<>>, default_hdr)
         IN IF e.err # "" THEN [err |-> e.err, value |-> value]
            ELSE proto2default_elems_short(format, n_values - 1,
                                           Append(value, e.hdr_dict),
                                           default_hdr)

proto2default_elems(format, n_values, value, default_hdr) ==
    IF n_values <= 0 THEN [err |-> "", value |-> value]
    ELSE LET e == proto2default_from(format.proto, 1, <<>>, default_hdr)
         IN IF e.err # "" THEN [err |-> e.err, value |-> value]
            ELSE proto2default_elems(format, n_values - 1,
                                     Append(value, e.hdr_dict), default_hdr)

proto2default_field(fld, default_hdr, parent_default_hdr) ==
    IF IsTuple(fld.format)
    THEN LET c == n_values_of(fld.def_or_name, default_hdr,
                              parent_default_hdr)
             r == proto2default_elems(fld.format, c.n, <<>>, default_hdr)
         IN IF c.err # "" THEN [err |-> c.err, value |-> None]
            ELSE [err |-> r.err, value |-> ListV(r.value)]
    ELSE IF IsTuple(fld.def_or_name)
    THEN LET t == cond_test(fld.def_or_name, default_hdr)
         IN IF t.err # "" THEN [err |-> t.err, value |-> None]
            ELSE IF t.holds
            THEN [err |-> "", value |-> fld.def_or_name.cond[1]]
            ELSE [err |-> "", value |-> EmptyDict]
    ELSE [err |-> "", value |-> fld.def_or_name.default]

proto2default_from(proto, i, default_hdr, parent_default_hdr) ==
    IF i > Len(proto) THEN [err |-> "", hdr_dict |-> default_hdr]
    ELSE LET d0 == Put(default_hdr, proto[i].name, EmptyDict)
             r == proto2default_field(proto[i], d0, parent_default_hdr)
         IN IF r.err # "" THEN [err |-> r.err, hdr_dict |-> d0]
            ELSE proto2default_from(proto, i + 1,
                                    Put(d0, proto[i].name, r.value),
                                    parent_default_hdr)

proto2default(proto, parent_default_hdr) ==
    proto2default_from(proto, 1, <<>>, parent_default_hdr)

-----------------------------------------------------------------------------
(* update_BV_header(hdr_dict_proto, hdr_dict_old, hdr_dict_new, parent_old,
   parent_new) mutates hdr_dict_new in place.  What it does to hdr_dict_old
   depends on how the two mappings share objects:
     "deep"     no object of old is an object of new;
     "shallow"  old is OrderedDict.copy() of new (bv_vmp.py line 126): two
                dicts whose group lists, and so their elements, are the same
                objects;
     "same"     old and new are one dict (the elements of a shared list).
   st = [old |-> .., new |-> ..] is the pair of mappings as mutated so far. *)

\* a mutation of the list object hdr_dict_new[name]
set_list(st, name, value, sharing) ==
    [new |-> Put(st.new, name, ListV(value)),
     old |-> IF sharing = "deep" THEN st.old
             ELSE Put(st.old, name, ListV(value))]
\* hdr_dict_new[name] = value
set_item(st, name, value, sharing) ==
    [new |-> Put(st.new, name, value),
     old |-> IF sharing = "same" THEN Put(st.old, name, value) ELSE st.old]
\* a del that leaves the entry in place
del_item_keep(st, name, sharing) == st

\* del hdr_dict_new[name]
del_item(st, name, sharing) ==
    [new |-> Del(st.new, name),
     old |-> IF sharing = "same" THEN Del(st.old, name) ELSE st.old]

(* delta_values and n_values: taken from the two mappings when the OLD one
   has the count field, from the two parents otherwise *)
update_counts(def_or_name, old, new, parent_old, parent_new) ==
    LET name == def_or_name.n_fields_name
        o == IF Has(old, name) THEN old ELSE parent_old
        n == IF Has(old, name) THEN new ELSE parent_new
    IN IF o = None \/ n = None THEN [err |-> "TypeError", delta |-> 0, n |-> 0]
       ELSE IF ~Has(n, name) \/ ~Has(o, name)
       THEN [err |-> "KeyError", delta |-> 0, n |-> 0]
       ELSE IF ~IsInt(Get(n, name)) \/ ~IsInt(Get(o, name))
       THEN [err |-> "TypeError", delta |-> 0, n |-> 0]
       ELSE [err |-> "", delta |-> Get(n, name).int - Get(o, name).int,
             n |-> Get(n, name).int]

RECURSIVE update_from(_, _, _, _, _, _)
RECURSIVE update_elems(_, _, _, _, _)

(* lines 358-361: one append when delta_values > 0, one pop when it is < 0 *)
update_resize(fld, delta_values, st, sharing) ==
    IF delta_values = 0 THEN [err |-> "", st |-> st]
    ELSE IF ~Has(st.new, fld.name) THEN [err |-> "KeyError", st |-> st]
    ELSE IF ~IsList(Get(st.new, fld.name))
    THEN [err |-> "AttributeError", st |-> st]
    ELSE LET value == Get(st.new, fld.name).list
             d == proto2default(fld.format.proto, st.new)
         IN IF delta_values > 0
            THEN IF d.err # "" THEN [err |-> d.err, st |-> st]
                 ELSE [err |-> "",
                       st |-> set_list(st, fld.name,
                                       Append(value, d.hdr_dict), sharing)]
            ELSE IF value = <<>> THEN [err |-> "IndexError", st |-> st]
            ELSE [err |-> "",
                  st |-> set_list(st, fld.name,
                                  SubSeq(value, 1, Len(value) - 1), sharing)]

(* lines 363-366: for i in range(n_values) *)
update_elems(fld, i, n_values, st, sharing) ==
    IF i >= n_values THEN [err |-> "", st |-> st]
    ELSE IF ~Has(st.old, fld.name) \/ ~Has(st.new, fld.name)
    THEN [err |-> "KeyError", st |-> st]
    ELSE IF ~IsList(Get(st.old, fld.name)) \/ ~IsList(Get(st.new, fld.name))
    THEN [err |-> "TypeError", st |-> st]
    ELSE LET olds == Get(st.old, fld.name).list
             news == Get(st.new, fld.name).list
         IN IF i + 1 > Len(olds) \/ i + 1 > Len(news)
            THEN [err |-> "IndexError", st |-> st]
            ELSE LET r == update_from(fld.format.proto, 1,
                                      [old |-> olds[i + 1],
                                       new |-> news[i + 1]],
                                      st.old, st.new,
                                      IF sharing = "deep" THEN "deep"
                                      ELSE "same")
                     st1 == set_list(st, fld.name,
                                     [news EXCEPT ![i + 1] = r.st.new],
                                     sharing)
                 IN IF r.err # "" THEN [err |-> r.err, st |-> st1]
                    ELSE update_elems(fld, i + 1, n_values, st1, sharing)

update_field(fld, st, parent_old, parent_new, sharing) ==
    IF IsTuple(fld.format)
    THEN LET c == update_counts(fld.def_or_name, st.old, st.new,
                                parent_old, parent_new)
             r == update_resize(fld, c.delta, st, sharing)
         IN IF c.err # "" THEN [err |-> c.err, st |-> st]
            ELSE IF r.err # "" THEN r
            ELSE update_elems(fld, 0, c.n, r.st, sharing)
    ELSE IF IsTuple(fld.def_or_name)
    THEN LET c_fields_name == fld.def_or_name.cond[2]
         IN IF ~Has(st.old, c_fields_name) \/ ~Has(st.new, c_fields_name)
            THEN [err |-> "KeyError", st |-> st]
            ELSE IF Get(st.old, c_fields_name) = Get(st.new, c_fields_name)
            THEN [err |-> "", st |-> st]
            ELSE IF Get(st.new, c_fields_name) = fld.def_or_name.cond[3]
            THEN [err |-> "",
                  st |-> set_item(st, fld.name, fld.def_or_name.cond[1],
                                  sharing)]
            ELSE IF ~Has(st.new, fld.name) THEN [err |-> "KeyError", st |-> st]
            ELSE [err |-> "", st |-> del_item(st, fld.name, sharing)]
    ELSE [err |-> "", st |-> st]

update_from(proto, i, st, parent_old, parent_new, sharing) ==
    IF i > Len(proto) THEN [err |-> "", st |-> st]
    ELSE LET r == update_field(proto[i], st, parent_old, parent_new, sharing)
         IN IF r.err # "" THEN r
            ELSE update_from(proto, i + 1, r.st, parent_old, parent_new,
                             sharing)

update_BV_header(proto, hdr_dict_old, hdr_dict_new, sharing) ==
    update_from(proto, 1, [old |-> hdr_dict_old, new |-> hdr_dict_new],
                None, None, sharing)

-----------------------------------------------------------------------------
(* The descriptors the operations are run on.  PROTO_VMP keeps the shape of
   VMP_HDR_DICT_PROTO: two count fields, a group whose elements hold a
   conditional field and a string, and a group of groups whose inner count
   is a field of the enclosing mapping. *)

PROTO_FLAT ==
    << Field("Resolution", Code("h"), Default(IntV(3))),
       Field("fmr", Code("z"), Default(StrV(<<1>>))),
       Field("LRConvention", Code("b"), Default(IntV(1))) >>

PROTO_COND(TypeOfMap) ==
    << Field("TypeOfMap", Code("B"), Default(IntV(TypeOfMap))),
       Field("NrOfLags", Code("B"), Cond(IntV(7), "TypeOfMap", IntV(1))),
       Field("DF1", Code("b"), Default(IntV(2))) >>

PROTO_GROUP ==
    << Field("n", Code("b"), Default(IntV(2))),
       Field("items", Nested(<< Field("v", Code("B"), Default(IntV(0))) >>),
             Count("n")) >>

PROTO_VMP ==
    << Field("NrOfSubMaps", Code("b"), Default(IntV(1))),
       Field("NrOfTimePoints", Code("b"), Default(IntV(1))),
       Field("Maps",
             Nested(<< Field("TypeOfMap", Code("B"), Default(IntV(0))),
                       Field("NrOfLags", Code("B"),
                             Cond(IntV(7), "TypeOfMap", IntV(1))),
                       Field("MapName", Code("z"), Default(StrV(<<1>>))) >>),
             Count("NrOfSubMaps")),
       Field("ComponentTimePoints",
             Nested(<< Field("Timepoints",
                             Nested(<< Field("Timepoint", Code("B"),
                                             Default(IntV(0))) >>),
                             Count("NrOfTimePoints")) >>),
             Count("NrOfSubMaps")) >>

Protos == {PROTO_FLAT, PROTO_COND(0), PROTO_COND(1), PROTO_GROUP, PROTO_VMP}

(* A descriptor whose group elements declare a field with the name of the
   enclosing mapping's count field, and count their own nested group by it
   (as the 'prts' groups the docstring of update_BV_header speaks of nest) *)
PROTO_SCOPE ==
    << Field("n", Code("b"), Default(IntV(1))),
       Field("items",
             Nested(<< Field("n", Code("b"), Default(IntV(2))),
                       Field("sub",
                             Nested(<< Field("v", Code("B"),
                                             Default(IntV(0))) >>),
                             Count("n")) >>),
             Count("n")) >>

\* a local count that shadows the parent's, and a count found in the parent
ScopeProtos == {PROTO_SCOPE, PROTO_VMP}

(* A group whose elements hold nothing but a zero-terminated string, as the
   ComponentParams of the VMP descriptor do when NrOfSubMaps is 0 (their
   ParamValues are then empty) *)
PROTO_PARAMS ==
    << Field("NrOfComponentParams", Code("B"), Default(IntV(0))),
       Field("ComponentParams",
             Nested(<< Field("ParamName", Code("z"), Default(StrV(<<>>))) >>),
             Count("NrOfComponentParams")) >>

\* groups of strings, of scalars, and of both
GroupProtos == {PROTO_PARAMS, PROTO_GROUP, PROTO_VMP}

(* A descriptor of a plain scalar, as ('Resolution', 'i', 3) of the VMP
   descriptor, for each integer code and default, and of an unsigned byte
   that follows it *)
ScalarCodes == {"b", "B", "h", "i", "I"}
PROTO_SCALAR(code, default) ==
    << Field("Resolution", Code(code), Default(IntV(default))),
       Field("UseVMPColor", Code("B"), Default(IntV(0))) >>

\* defaults at and around the ends of the ranges of the codes
ScalarValues ==
    {-2147483647 - 1, -32768, -129, -128, -1, 0, 127, 128, 255, 256, 32767,
     65535, 2147483647}

(* Descriptors of text headers: the first fields of FMR_HDR_DICT_PROTO, a
   number and a string, and a descriptor with a nested format *)
PROTO_FMR ==
    << Field("FileVersion", Code("h"), Default(IntV(7))),
       Field("Prefix", Code("z"), Default(StrV(<<>>))) >>

TextProtos == {PROTO_FMR, PROTO_GROUP}

\* the names a descriptor refers to, at any depth, as repeat count or as
\* governing field of a conditional field
RECURSIVE Referenced(_)
Referenced(proto) ==
    UNION {IF IsTuple(proto[i].format)
           THEN {proto[i].def_or_name.n_fields_name}
                \cup Referenced(proto[i].format.proto)
           ELSE IF IsTuple(proto[i].def_or_name)
           THEN {proto[i].def_or_name.cond[2]}
           ELSE {} : i \in 1..Len(proto)}

(* the count fields and the discriminants of a descriptor's top level: the
   fields whose edit calls for update_BV_header *)
GoverningNames(proto) ==
    Referenced(proto) \cap {proto[i].name : i \in 1..Len(proto)}

RECURSIVE SeqsUpTo(_, _)
SeqsUpTo(S, n) ==
    IF n = 0 THEN {<<>>}
    ELSE LET shorter == SeqsUpTo(S, n - 1)
         IN shorter \cup {Append(s, b) : s \in shorter, b \in S}

Streams == SeqsUpTo(Bytes, MaxLen)
\* a mapping that is to be edited is decoded from counts and discriminants
\* 0 and 1 (the edits supply the other values)
StartBytes == {0, 1}
StartStreams == SeqsUpTo(StartBytes, MaxStart)
\* the bytes a scalar is decoded from: a low byte and the byte of all ones
ScalarBytes == {1, 255}
ScalarStreams == SeqsUpTo(ScalarBytes, MaxLen)
\* the bytes groups are decoded from: among them a repeat count that is
\* larger than the number of bytes of any stream
GroupBytes == {0, 1, MaxLen + 2}
GroupStreams == SeqsUpTo(GroupBytes, MaxLen)
\* the characters of a text header: line ends, the colon, a digit, a letter
TextBytes == {LF, CR, Colon, Digit1, LetterA}
TextStreams == SeqsUpTo(TextBytes, MaxTextLen)
\* the string scanner tells only zero bytes from the others
ScanBytes == {0, 1}
ScanStreams == SeqsUpTo(ScanBytes, MaxScanLen)

-----------------------------------------------------------------------------
(* The state machine.  pc is the stage of the header's life: "start", then
   "parsed" (BvFileHeader.from_fileobj) or "defaulted" (BvFileHeader()),
   "edited" (set_data_shape has copied the mapping and stored the new
   count), "updated" and "updated2" (update_BV_header has run once, twice),
   "assigned" (a setter has stored a value in a field); "scanned" after a
   readCString call.  h2 is the header BvFileHeader.copy() returned (None
   before): its mapping and, for reference, the mapping's value at the time
   of the copy.  err is the exception the last
   operation raised. *)

InitAt(protos, streams, positions) ==
    /\ hdr_dict_proto \in protos
    /\ fileobj \in {BytesIO(data, p) : data \in streams, p \in positions}
    /\ fileobj.pos <= Len(fileobj.data)
    /\ hdrDict = None
    /\ hdrDict_old = None
    /\ copy_kind = "none"
    /\ hdr_before = None
    /\ binaryblock = None
    /\ hdr_size = None
    /\ reparsed = None
    /\ str_list = None
    /\ call = [op |-> "none"]
    /\ err = ""
    /\ pc = "start"
    /\ n_edits = 0
    /\ h2 = None

(* The mapping of h2 after header h's mapping has become new: copy() hands
   h's own OrderedDict to the constructor, which keeps it (lines 515, 615),
   so both headers hold one object. *)
same_object(copied, new) ==
    IF copied = None THEN None ELSE [copied EXCEPT !.hdrDict = new]

\* the file object is at position 0, the beginning of the header
InitWith(protos, streams) == InitAt(protos, streams, {0})

InitOn(streams) == InitWith(Protos, streams)

\* BvFileHeader.from_fileobj: hdrDict = parse_BV_header(proto, fileobj)
Parse ==
    /\ pc = "start"
    /\ LET r == parse_BV_header(hdr_dict_proto, fileobj, None)
       IN /\ hdrDict' = IF r.err = "" THEN r.hdr_dict ELSE None
          /\ fileobj' = r.f
          /\ err' = r.err
    /\ pc' = "parsed"
    /\ call' = [op |-> "parse", pos |-> fileobj.pos]
    /\ UNCHANGED <<h2, hdr_dict_proto, hdrDict_old, copy_kind, hdr_before,
                   binaryblock, hdr_size, reparsed, str_list, n_edits>>

\* BvFileHeader.__init__ with hdrDict None: _proto2default(hdr_dict_proto)
Synthesize ==
    /\ pc = "start"
    /\ LET r == proto2default(hdr_dict_proto, None)
       IN /\ hdrDict' = IF r.err = "" THEN r.hdr_dict ELSE None
          /\ err' = r.err
    /\ pc' = "defaulted"
    /\ call' = [op |-> "default"]
    /\ UNCHANGED <<h2, hdr_dict_proto, fileobj, hdrDict_old, copy_kind,
                   hdr_before, binaryblock, hdr_size, reparsed, str_list, n_edits>>

\* BvFileHeader.write_to: binaryblock = pack_BV_header(proto, hdrDict)
Pack ==
    /\ hdrDict # None
    /\ pc \in {"parsed", "defaulted", "assigned", "updated", "updated2"}
    /\ binaryblock = None
    /\ binaryblock' = pack_BV_header(hdr_dict_proto, hdrDict, None)
    /\ UNCHANGED <<h2, hdr_dict_proto, fileobj, hdrDict, hdrDict_old, copy_kind,
                   hdr_before, hdr_size, reparsed, str_list, call, err, pc,
                   n_edits>>

\* BvFileHeader.get_data_offset: calc_BV_header_size(proto, hdrDict)
CalcSize ==
    /\ hdrDict # None
    /\ pc \in {"parsed", "defaulted", "assigned", "updated", "updated2"}
    /\ hdr_size = None
    /\ hdr_size' = calc_BV_header_size(hdr_dict_proto, hdrDict, None)
    /\ UNCHANGED <<h2, hdr_dict_proto, fileobj, hdrDict, hdrDict_old, copy_kind,
                   hdr_before, binaryblock, reparsed, str_list, call, err, pc,
                   n_edits>>

(* The start of BvVmpHeader.set_data_shape, for any count field or
   discriminant of the top level: the mapping is copied (hdrDict_old) and
   the field is assigned.  The copy is the shallow OrderedDict.copy() of
   line 126, or a copy sharing nothing with the mapping. *)
Edit(name, value, kind) ==
    /\ pc \in {"parsed", "defaulted", "assigned", "updated", "updated2"}
    /\ hdrDict # None
    /\ err = ""
    /\ n_edits < MaxEdits
    /\ Has(hdrDict, name)
    /\ Get(hdrDict, name) # IntV(value)
    /\ hdrDict_old' = hdrDict
    /\ copy_kind' = kind
    /\ hdrDict' = Put(hdrDict, name, IntV(value))
    /\ n_edits' = n_edits + 1
    /\ pc' = "edited"
    /\ call' = [op |-> "edit", name |-> name, value |-> value]
    /\ binaryblock' = None
    /\ hdr_size' = None
    /\ reparsed' = None
    /\ h2' = same_object(h2, hdrDict')
    /\ UNCHANGED <<hdr_dict_proto, fileobj, hdr_before, str_list, err>>

(* self._hdrDict = update_BV_header(proto, hdrDict_old, self._hdrDict): the
   call that ends set_data_shape, and the same call once more on its result.
   When the call raises, the mapping stays as mutated so far. *)
Update ==
    /\ \/ pc = "edited"
       \/ pc = "updated" /\ err = ""
    /\ LET r == update_BV_header(hdr_dict_proto, hdrDict_old, hdrDict,
                                 copy_kind)
       IN /\ hdrDict' = r.st.new
          /\ hdrDict_old' = r.st.old
          /\ err' = r.err
    /\ hdr_before' = hdrDict
    /\ pc' = IF pc = "edited" THEN "updated" ELSE "updated2"
    /\ call' = [op |-> "update"]
    /\ binaryblock' = None
    /\ hdr_size' = None
    /\ reparsed' = None
    /\ h2' = same_object(h2, hdrDict')
    /\ UNCHANGED <<hdr_dict_proto, fileobj, copy_kind, str_list, n_edits>>

(* h2 = h.copy(): self.__class__(self._hdrDict).  The constructor measures
   the mapping (offset is None) and raises what calc_BV_header_size raises. *)
Copy ==
    /\ pc \in {"parsed", "defaulted", "assigned", "updated", "updated2"}
    /\ hdrDict # None
    /\ err = ""
    /\ h2 = None
    /\ LET r == calc_BV_header_size(hdr_dict_proto, hdrDict, None)
       IN /\ err' = r.err
          /\ h2' = IF r.err = ""
                   THEN [hdrDict |-> hdrDict, at_copy |-> hdrDict]
                   ELSE None
    /\ UNCHANGED <<hdr_dict_proto, fileobj, hdrDict, hdrDict_old, copy_kind,
                   hdr_before, binaryblock, hdr_size, reparsed, str_list,
                   call, pc, n_edits>>

\* the values the setters are given: in and out of the range of each code
AssignValues == {-1, 128, 256, 32768}

\* the plain and conditional scalars of the top level that govern no other
\* field: the fields a setter assigns without reconciling
AssignableNames(proto) ==
    {proto[i].name : i \in {j \in 1..Len(proto) : /\ ~IsZ(proto[j].format)
                                                  /\ ~IsTuple(proto[j].format)}}
    \ GoverningNames(proto)

(* A setter of the format layer: self._hdrDict[name] = value, as set_zooms
   and set_data_dtype do, with no check of the value against the code *)
Assign(name, value) ==
    /\ pc \in {"parsed", "defaulted", "assigned", "updated", "updated2"}
    /\ hdrDict # None
    /\ err = ""
    /\ n_edits < MaxEdits
    /\ hdrDict' = Put(hdrDict, name, IntV(value))
    /\ h2' = same_object(h2, hdrDict')
    /\ n_edits' = n_edits + 1
    /\ pc' = "assigned"
    /\ call' = [op |-> "assign", name |-> name, value |-> value]
    /\ binaryblock' = None
    /\ hdr_size' = None
    /\ reparsed' = None
    /\ UNCHANGED <<hdr_dict_proto, fileobj, hdrDict_old, copy_kind,
                   hdr_before, str_list, err>>

(* The decoder run on the block the encoder produced:
   parse_BV_header(proto, BytesIO(binaryblock)) *)
Reparse ==
    /\ binaryblock # None
    /\ binaryblock.err = ""
    /\ reparsed = None
    /\ reparsed' = parse_BV_header(hdr_dict_proto,
                                   BytesIO(binaryblock.block, 0),
                                   None)
    /\ UNCHANGED <<h2, hdr_dict_proto, fileobj, hdrDict, hdrDict_old, copy_kind,
                   hdr_before, binaryblock, hdr_size, str_list, call, err,
                   pc, n_edits>>

(* Decoding, default synthesis, encoding, measuring and decoding again *)
Init == InitOn(Streams)

Next ==
    \/ Parse
    \/ Synthesize
    \/ Pack
    \/ CalcSize
    \/ Reparse

Spec == Init /\ [][Next]_vars

(* A mapping, decoded or synthesized, that is edited and reconciled, encoded
   and measured *)
InitUpdate == InitOn(StartStreams)

NextUpdate ==
    \/ Parse
    \/ Synthesize
    \/ \E name \in GoverningNames(hdr_dict_proto), value \in -1..MaxCount,
          kind \in {"shallow", "deep"} : Edit(name, value, kind)
    \/ Update
    \/ Pack
    \/ CalcSize

SpecUpdate == InitUpdate /\ [][NextUpdate]_vars

(* A mapping, decoded or synthesized, that is edited and reconciled the way
   set_data_shape does it: the old mapping is the shallow copy *)
NextReconcile ==
    \/ Parse
    \/ Synthesize
    \/ \E name \in GoverningNames(hdr_dict_proto), value \in 0..MaxCount :
          Edit(name, value, "shallow")
    \/ Update

SpecReconcile == InitUpdate /\ [][NextReconcile]_vars

(* The mappings of the descriptors with nested counts: decoded or
   synthesized, edited and reconciled, encoded and measured *)
InitScope == InitWith(ScopeProtos, StartStreams)

NextScope ==
    \/ Parse
    \/ Synthesize
    \/ \E name \in GoverningNames(hdr_dict_proto), value \in 0..MaxCount :
          Edit(name, value, "shallow")
    \/ Update
    \/ Pack
    \/ CalcSize

SpecScope == InitScope /\ [][NextScope]_vars

(* A header that is copied and whose fields the setters assign and whose
   shape set_data_shape changes *)
NextAccess ==
    \/ Parse
    \/ Synthesize
    \/ Copy
    \/ \E name \in AssignableNames(hdr_dict_proto), value \in AssignValues :
          Assign(name, value)
    \/ \E name \in GoverningNames(hdr_dict_proto), value \in 0..MaxCount :
          Edit(name, value, "shallow")
    \/ Update

SpecAccess == InitUpdate /\ [][NextAccess]_vars

(* A mapping, decoded or synthesized, in which the setters store values and
   that is then encoded and measured *)
NextAssign ==
    \/ Parse
    \/ Synthesize
    \/ \E name \in AssignableNames(hdr_dict_proto), value \in AssignValues :
          Assign(name, value)
    \/ Pack
    \/ CalcSize

SpecAssign == InitUpdate /\ [][NextAssign]_vars

(* A scalar and the byte after it, decoded from a stream or synthesized
   from their defaults, encoded and decoded again.  An unsigned four-byte
   value from 2^31 on is beyond the integers of the model checker: the
   streams of code I have a fourth byte below 128. *)
InitScalar ==
    \E code \in ScalarCodes, default \in ScalarValues :
        /\ InitWith({PROTO_SCALAR(code, default)}, ScalarStreams)
        /\ (code = "I" /\ Len(fileobj.data) >= 4) => fileobj.data[4] < 128

SpecScalar == InitScalar /\ [][Next]_vars

(* The mappings of the descriptors with groups, decoded or synthesized,
   encoded, measured and decoded again *)
InitGroups == InitWith(GroupProtos, GroupStreams)

SpecGroups == InitGroups /\ [][Next]_vars

(* BvFileHeader.from_fileobj on a file object that is at the beginning of
   the header, which is at position 0 or further on in the stream, and
   get_data_offset on the header it returns *)
InitOffset == InitAt(Protos, Streams, 0..MaxOffset)

NextOffset ==
    \/ Parse
    \/ CalcSize

SpecOffset == InitOffset /\ [][NextOffset]_vars

(* A BvVmpHeader, built from defaults or read from a stream, whose number
   of sub-maps set_data_shape changes, to any n >= 1, any number of times;
   the header is written and its data offset asked for at any time *)
InitShape == InitWith({PROTO_VMP}, StartStreams)

\* the header was built from defaults: nothing was read from the stream
\* (from_fileobj reads the two counts at least, or raises)
BuiltFromDefaults == hdrDict # None /\ fileobj.pos = 0

NextShape ==
    \/ Parse
    \/ Synthesize
    \/ \E n \in 1..(MaxCount + 1) : Edit("NrOfSubMaps", n, "shallow")
    \/ pc = "edited" /\ Update
    \/ Pack
    \/ CalcSize

SpecShape == InitShape /\ [][NextShape]_vars

(* parse_notBin_BV_header(hdr_dict_proto, fileobj), step by step.  pc is
   "for" at the head of the loop over the descriptor, "while" when a line
   has been read and the test of the while loop is due, "returned" and
   "raised" when the call has ended; call holds the index of the field the
   loop is at and the line last read; hdrDict is hdr_dict. *)
InitText == InitWith(TextProtos, TextStreams)

\* line 103: hdr_dict = OrderedDict()
TextCall ==
    /\ pc = "start"
    /\ hdrDict' = <<>>
    /\ call' = [op |-> "parse_notBin", i |-> 1, line |-> <<>>]
    /\ pc' = "for"
    /\ UNCHANGED <<hdr_dict_proto, fileobj, hdrDict_old, copy_kind, hdr_before,
                   binaryblock, hdr_size, reparsed, str_list, err, n_edits, h2>>

\* lines 104-105: the next field of the descriptor; line = fileobj.readline()
TextReadline ==
    /\ pc = "for"
    /\ call.i <= Len(hdr_dict_proto)
    /\ fileobj' = readline(fileobj).f
    /\ call' = [call EXCEPT !.line = readline(fileobj).line]
    /\ pc' = "while"
    /\ UNCHANGED <<hdr_dict_proto, hdrDict, hdrDict_old, copy_kind, hdr_before,
                   binaryblock, hdr_size, reparsed, str_list, err, n_edits, h2>>

\* lines 106-107: the body of the while loop: line = fileobj.readline()
TextSkip ==
    /\ pc = "while"
    /\ skip_line(call.line)
    /\ fileobj' = readline(fileobj).f
    /\ call' = [call EXCEPT !.line = readline(fileobj).line]
    /\ UNCHANGED <<hdr_dict_proto, hdrDict, hdrDict_old, copy_kind, hdr_before,
                   binaryblock, hdr_size, reparsed, str_list, err, pc, n_edits,
                   h2>>

\* lines 108-120: the while loop is left; hdr_dict[name] = value, or a raise
TextStore ==
    /\ pc = "while"
    /\ ~skip_line(call.line)
    /\ LET fld == hdr_dict_proto[call.i]
           r == text_value(fld.format, call.line)
       IN /\ err' = r.err
          /\ hdrDict' = IF r.err = "" THEN Put(hdrDict, fld.name, r.value)
                        ELSE hdrDict
          /\ pc' = IF r.err = "" THEN "for" ELSE "raised"
    /\ call' = [call EXCEPT !.i = call.i + 1]
    /\ UNCHANGED <<hdr_dict_proto, fileobj, hdrDict_old, copy_kind, hdr_before,
                   binaryblock, hdr_size, reparsed, str_list, n_edits, h2>>

\* line 122: return hdr_dict
TextReturn ==
    /\ pc = "for"
    /\ call.i > Len(hdr_dict_proto)
    /\ pc' = "returned"
    /\ UNCHANGED <<hdr_dict_proto, fileobj, hdrDict, hdrDict_old, copy_kind,
                   hdr_before, binaryblock, hdr_size, reparsed, str_list, call,
                   err, n_edits, h2>>

NextText ==
    \/ TextCall
    \/ TextReadline
    \/ TextSkip
    \/ TextStore
    \/ TextReturn

(* The call runs on: a step is taken whenever one changes the state.  A
   step of the while loop at the end of the file changes nothing. *)
SpecText == InitText /\ [][NextText]_vars /\ WF_vars(NextText)

(* One readCString call on a file object whose cursor is anywhere in the
   stream (or at its end), with every combination of the parameters *)
InitScan ==
    /\ hdr_dict_proto = <<>>
    /\ \E data \in ScanStreams, pos \in 0..MaxScanLen :
          /\ pos <= Len(data)
          /\ fileobj = BytesIO(data, pos)
    /\ hdrDict = None
    /\ hdrDict_old = None
    /\ copy_kind = "none"
    /\ hdr_before = None
    /\ binaryblock = None
    /\ hdr_size = None
    /\ reparsed = None
    /\ str_list = None
    /\ call = [op |-> "none"]
    /\ err = ""
    /\ pc = "start"
    /\ n_edits = 0
    /\ h2 = None

ReadCString(nStrings, bufsize, startPos, strip, rewind) ==
    /\ pc = "start"
    /\ LET r == readCString(fileobj, nStrings, bufsize, startPos, strip,
                            rewind)
       IN /\ fileobj' = r.f
          /\ str_list' = r.str_list
          /\ err' = r.err
    /\ call' = [op |-> "readCString", pos |-> fileobj.pos,
                nStrings |-> nStrings, bufsize |-> bufsize,
                startPos |-> startPos, strip |-> strip, rewind |-> rewind]
    /\ pc' = "scanned"
    /\ UNCHANGED <<h2, hdr_dict_proto, hdrDict, hdrDict_old, copy_kind,
                   hdr_before, binaryblock, hdr_size, reparsed, n_edits>>

NextScan ==
    \E nStrings \in 1..MaxStrings,
       bufsize \in (1..MaxScanLen) \cup {bufsize_default},
       startPos \in {None} \cup {IntV(q) : q \in 0..Len(fileobj.data)},
       strip \in BOOLEAN, rewind \in BOOLEAN :
          ReadCString(nStrings, bufsize, startPos, strip, rewind)

SpecScan == InitScan /\ [][NextScan]_vars

-----------------------------------------------------------------------------
(* Properties of the decoder, the encoder and the size calculator (Spec) *)

\* the entry of a field in a mapping: its value, or None when it has none
Entry(hdr_dict, name) ==
    IF Has(hdr_dict, name) THEN Get(hdr_dict, name) ELSE None

WithoutField(proto, name) == SelectSeq(proto, LAMBDA fld : fld.name # name)

\* the top-level groups and conditional scalars of a descriptor
Groups(proto) == {i \in 1..Len(proto) : IsTuple(proto[i].format)}
Conditionals(proto) ==
    {i \in 1..Len(proto) : /\ ~IsZ(proto[i].format)
                           /\ ~IsTuple(proto[i].format)
                           /\ IsTuple(proto[i].def_or_name)}

(* C1: decode-encode-decode is idempotent.  Whenever parse_BV_header has
   succeeded on the stream with mapping hdrDict, pack_BV_header succeeds on
   hdrDict and parse_BV_header of the packed block succeeds and returns a
   mapping equal to hdrDict, nested elements and conditional fields
   included. *)
C1_DecodeEncodeDecode ==
    (pc = "parsed" /\ err = "" /\ binaryblock # None) =>
        /\ binaryblock.err = ""
        /\ reparsed # None =>
              /\ reparsed.err = ""
              /\ reparsed.hdr_dict = hdrDict

\* a decoded VMP mapping with a map (string and unsatisfied conditional
\* field inside) and a time point, encoded and decoded again
C1_Witness ==
    /\ pc = "parsed" /\ err = "" /\ reparsed # None
    /\ hdr_dict_proto = PROTO_VMP
    /\ Len(Get(hdrDict, "Maps").list) = 1
    /\ Get(Get(hdrDict, "Maps").list[1], "NrOfLags") = IntV(7)
    /\ Len(Get(Get(hdrDict, "ComponentTimePoints").list[1],
               "Timepoints").list) = 1

(* C2: size exactness.  Whenever pack_BV_header succeeds on a mapping,
   calc_BV_header_size on the same mapping succeeds and returns exactly the
   length of the packed block. *)
C2_SizeExact ==
    (hdrDict # None /\ binaryblock # None /\ hdr_size # None
     /\ binaryblock.err = "") =>
        hdr_size = [err |-> "", size |-> Len(binaryblock.block)]

\* a VMP mapping with a map (a string inside) packed into at least five
\* bytes and measured
C2_Witness ==
    /\ hdrDict # None /\ binaryblock # None /\ hdr_size # None
    /\ binaryblock.err = ""
    /\ hdr_dict_proto = PROTO_VMP
    /\ Len(Get(hdrDict, "Maps").list) >= 1
    /\ Len(binaryblock.block) >= 5

\* values a mapping may hold for a conditional field: in and out of the
\* range of its code, a string, the placeholder {}
StoredValues == {IntV(0), IntV(7), IntV(256), StrV(<<1>>), EmptyDict}

(* The conditional-field policy for mapping hdr_dict of descriptor proto
   (parent as in the calls): for each conditional field whose test is false,
   the packed block is the block of the descriptor without that field,
   whatever value the mapping holds for it, and decoding that block consumes
   all of it and stores the field's default. *)
CondPolicy(proto, hdr_dict, parent) ==
    \A i \in Conditionals(proto) :
        LET fld == proto[i]
            block == pack_BV_header(WithoutField(proto, fld.name), hdr_dict,
                                    parent)
            back == parse_BV_header(proto, BytesIO(block.block, 0), parent)
        IN (/\ Has(hdr_dict, fld.def_or_name.cond[2])
            /\ Get(hdr_dict, fld.def_or_name.cond[2]) # fld.def_or_name.cond[3]
            /\ block.err = "") =>
               /\ \A x \in StoredValues :
                      pack_BV_header(proto, Put(hdr_dict, fld.name, x), parent)
                          = block
               /\ back.err = ""
               /\ back.f.pos = Len(block.block)
               /\ Get(back.hdr_dict, fld.name) = fld.def_or_name.cond[1]

(* C3: conditional field policy.  For a field B conditional on A == v and a
   mapping with A != v, pack_BV_header emits no bytes for B whatever B holds
   (the block is that of the descriptor without B), and parse_BV_header on
   that block reads no bytes for B and stores B's default; at the top level
   and in the elements of a group. *)
C3_ConditionalPolicy ==
    (hdrDict # None /\ binaryblock # None) =>
        /\ CondPolicy(hdr_dict_proto, hdrDict, None)
        /\ \A i \in Conditionals(hdr_dict_proto) :
              (/\ Get(hdrDict, hdr_dict_proto[i].def_or_name.cond[2])
                     # hdr_dict_proto[i].def_or_name.cond[3]
               /\ reparsed # None) =>
                  /\ binaryblock =
                        pack_BV_header(WithoutField(hdr_dict_proto,
                                                    hdr_dict_proto[i].name),
                                       hdrDict, None)
                  /\ reparsed.err = ""
                  /\ reparsed.f.pos = Len(binaryblock.block)
                  /\ Get(reparsed.hdr_dict, hdr_dict_proto[i].name)
                        = hdr_dict_proto[i].def_or_name.cond[1]
        /\ \A i \in Groups(hdr_dict_proto) :
              LET elems == Get(hdrDict, hdr_dict_proto[i].name).list
              IN \A e \in 1..Len(elems) :
                    CondPolicy(hdr_dict_proto[i].format.proto, elems[e],
                               hdrDict)

\* a decoded mapping whose discriminant fails the test, packed and decoded
\* again
C3_Witness ==
    /\ pc = "parsed" /\ err = "" /\ reparsed # None
    /\ hdr_dict_proto = PROTO_COND(0)
    /\ Get(hdrDict, "TypeOfMap") = IntV(255)
    /\ Len(binaryblock.block) = 2

RECURSIVE ExactDefault(_, _, _)
(* hdr_dict has exactly the names proto declares, in order, and every group
   is a list of as many such mappings as its count field (local, else
   parent) says *)
ExactDefault(proto, hdr_dict, parent) ==
    /\ Keys(hdr_dict) = [i \in 1..Len(proto) |-> proto[i].name]
    /\ \A i \in Groups(proto) :
          LET value == Get(hdr_dict, proto[i].name)
              c == proto[i].def_or_name.n_fields_name
              n == IF Has(hdr_dict, c) THEN Get(hdr_dict, c)
                   ELSE Get(parent, c)
          IN /\ IsList(value)
             /\ IsInt(n)
             /\ Len(value.list) = n.int
             /\ \A e \in 1..Len(value.list) :
                   ExactDefault(proto[i].format.proto, value.list[e],
                                hdr_dict)

(* C9: default completeness.  _proto2default(d) succeeds, has exactly the
   field names d declares at each nesting level, each nested group is a list
   whose length is the synthesized value of its count field, and
   calc_BV_header_size of it returns a positive integer. *)
C9_DefaultComplete ==
    (pc = "defaulted") =>
        /\ err = ""
        /\ ExactDefault(hdr_dict_proto, hdrDict, None)
        /\ hdr_size # None => hdr_size.err = "" /\ hdr_size.size > 0

\* the synthesized VMP mapping, measured
C9_Witness ==
    /\ pc = "defaulted" /\ hdr_size # None
    /\ hdr_dict_proto = PROTO_VMP
    /\ Len(Get(hdrDict, "Maps").list) = 1

(* C13: decode on a short stream.  parse_BV_header returns a mapping only
   when every field it read was wholly in the stream, so that the cursor it
   leaves is not beyond the end of the stream; when the stream ends before a
   field is complete it raises and no mapping is returned. *)
C13_ShortStream ==
    (pc = "parsed") =>
        /\ err = "" => fileobj.pos <= Len(fileobj.data)
        /\ err # "" => hdrDict = None

(* C24: monotone cursor during decode.  No operation parse_BV_header makes
   on the stream, the scan of a zero-terminated string included, leaves the
   cursor before the place it was at. *)
C24_MonotoneCursor ==
    (pc = "parsed") => ~fileobj.moved_back

(* the least number of bytes a mapping of descriptor proto takes in a
   stream: the width of each plain scalar and the terminator of each string
   (a conditional scalar and a group may take none) *)
MinSize(proto) ==
    SeqSum([i \in 1..Len(proto) |->
               IF IsZ(proto[i].format) THEN 1
               ELSE IF IsTuple(proto[i].format) \/ IsTuple(proto[i].def_or_name)
               THEN 0
               ELSE calcsize(proto[i].format)])

(* C25: decode is bounded by the stream.  parse_BV_header returns or raises
   on every stream, and a group whose elements take at least one byte each
   is decoded into no more elements than the stream has bytes, whatever
   repeat count was read: no element is decoded once the stream is
   exhausted. *)
C25_BoundedByStream ==
    /\ pc # "start" => pc \in {"parsed", "defaulted"}
    /\ (pc = "parsed" /\ err = "") =>
          \A g \in Groups(hdr_dict_proto) :
              MinSize(hdr_dict_proto[g].format.proto) >= 1 =>
                  Len(Get(hdrDict, hdr_dict_proto[g].name).list)
                      <= Len(fileobj.data)

(* C26: decode consumes exactly the encoded size.  When parse_BV_header
   succeeds on a stream whose cursor was at p and returns mapping m, the
   cursor is then at p + calc_BV_header_size(d, m), the size succeeding; so
   the data offset from_fileobj takes from fileobj.tell() is p more than
   the offset get_data_offset recomputes, and equals it when the header
   begins at position 0. *)
C26_ConsumesEncodedSize ==
    (pc = "parsed" /\ err = "" /\ hdr_size # None) =>
        /\ hdr_size.err = ""
        /\ fileobj.pos = call.pos + hdr_size.size
        /\ call.pos = 0 => fileobj.pos = hdr_size.size

\* a VMP header with a map, decoded from position 1 on and measured
C26_Witness ==
    /\ pc = "parsed" /\ err = "" /\ hdr_size # None
    /\ hdr_dict_proto = PROTO_VMP
    /\ call.pos = 1
    /\ Len(Get(hdrDict, "Maps").list) = 1
    /\ hdr_size.size = 4
    /\ fileobj.pos = 5

(* C26 as first stated: the data offset from_fileobj takes from
   fileobj.tell() equals the offset get_data_offset recomputes, wherever
   the header begins. *)
C26_OffsetsEqual ==
    (pc = "parsed" /\ err = "" /\ hdr_size # None) =>
        /\ hdr_size.err = ""
        /\ fileobj.pos = hdr_size.size

(* C29: defaults survive a round trip.  pack_BV_header of the mapping
   _proto2default returns succeeds, and parse_BV_header of the packed block
   succeeds and returns a mapping equal to the synthesized one, field for
   field, conditional fields whose governing default does not satisfy the
   condition included. *)
C29_DefaultRoundTrip ==
    (pc = "defaulted" /\ err = "" /\ binaryblock # None) =>
        /\ binaryblock.err = ""
        /\ reparsed # None =>
              /\ reparsed.err = ""
              /\ reparsed.hdr_dict = hdrDict

(* C14: byte-exact re-encoding.  When parse_BV_header succeeds having moved
   the cursor from 0 to k, pack_BV_header of the mapping succeeds and its
   block is the first k bytes of the stream. *)
C14_ByteExact ==
    (pc = "parsed" /\ err = "" /\ binaryblock # None) =>
        /\ binaryblock.err = ""
        /\ Len(binaryblock.block) = fileobj.pos
        /\ fileobj.pos <= Len(fileobj.data)
        /\ binaryblock.block = SubSeq(fileobj.data, 1, fileobj.pos)

RECURSIVE ConditionalDefaults(_, _)
(* every conditional scalar of hdr_dict, at every nesting level, holds the
   default of its spec tuple *)
ConditionalDefaults(proto, hdr_dict) ==
    /\ \A i \in Conditionals(proto) :
          Entry(hdr_dict, proto[i].name) = proto[i].def_or_name.cond[1]
    /\ \A g \in Groups(proto) :
          \A e \in 1..Len(Get(hdr_dict, proto[g].name).list) :
              ConditionalDefaults(proto[g].format.proto,
                                  Get(hdr_dict, proto[g].name).list[e])

(* C19: default of a conditional field.  In the mapping _proto2default
   returns, every conditional scalar holds the default of its spec tuple,
   whether or not the governing field's default equals the required value. *)
C19_ConditionalDefault ==
    (pc = "defaulted" /\ err = "") =>
        ConditionalDefaults(hdr_dict_proto, hdrDict)

-----------------------------------------------------------------------------
(* Properties of the string scanner (SpecScan) *)

ZerosIn(data, lo, hi) == {j \in lo..hi : data[j] = 0}

\* the 1-based index of the k-th zero byte after cursor p (p itself for k = 0)
NthZero(data, p, k) ==
    IF k = 0 THEN p
    ELSE CHOOSE q \in (p + 1)..Len(data) :
            data[q] = 0 /\ Cardinality(ZerosIn(data, p + 1, q)) = k

(* C10: string scanner result and cursor.  A readCString call without
   startPos, with the cursor at p and at least nStrings zero bytes among the
   bufsize bytes after p, returns the nStrings byte strings delimited by the
   first nStrings zero bytes after p, in order (each with its terminator
   when strip is False), and, unless rewind is asked, leaves the cursor just
   past the last of these terminators, which is p plus the sum of the
   strings' lengths plus one each. *)
C10_ScanResultAndCursor ==
    (/\ pc = "scanned"
     /\ call.startPos = None
     /\ Cardinality(ZerosIn(fileobj.data, call.pos + 1,
                            Min(call.pos + call.bufsize, Len(fileobj.data))))
           >= call.nStrings) =>
        LET data == fileobj.data
            p == call.pos
            string(i) == SubSeq(data, NthZero(data, p, i - 1) + 1,
                                NthZero(data, p, i) - 1)
        IN /\ err = ""
           /\ str_list = [i \in 1..call.nStrings |->
                             IF call.strip THEN string(i)
                             ELSE Append(string(i), 0)]
           /\ ~call.rewind =>
                 /\ fileobj.pos = NthZero(data, p, call.nStrings)
                 /\ fileobj.pos =
                       p + SeqSum([i \in 1..call.nStrings |->
                                      Len(string(i)) + 1])

\* two different strings read from the middle of a stream, terminators kept
C10_Witness ==
    /\ pc = "scanned" /\ err = ""
    /\ call.startPos = None /\ call.pos > 0 /\ call.nStrings = 2
    /\ ~call.strip /\ ~call.rewind
    /\ str_list = << <<1, 0>>, <<0>> >>
    /\ fileobj.pos = call.pos + 3

(* C11: peek mode.  A readCString call with rewind=True raises or returns
   exactly what the same call with rewind=False raises or returns on the
   same file object, and leaves the cursor where it was before the call, for
   every nStrings and every startPos (None or a position). *)
C11_PeekMode ==
    (pc = "scanned" /\ call.rewind) =>
        LET r == readCString(BytesIO(fileobj.data, call.pos),
                             call.nStrings, call.bufsize, call.startPos,
                             call.strip, FALSE)
        IN /\ fileobj.pos = call.pos
           /\ err = r.err
           /\ str_list = r.str_list

\* a peek at the start of the stream from a cursor further on
C11_Witness ==
    /\ pc = "scanned" /\ err = "" /\ call.rewind
    /\ call.pos > 0 /\ call.startPos = IntV(0)
    /\ str_list = << <<1>> >>
    /\ fileobj.pos = call.pos

\* where a readCString call starts to read
ScanStart == IF call.startPos = None THEN call.pos ELSE call.startPos.int

(* C12: string scanner underflow.  When fewer than nStrings zero bytes lie
   among the bufsize bytes readCString reads (from startPos, or from the
   cursor), the call raises and returns no strings. *)
C12_Underflow ==
    (/\ pc = "scanned"
     /\ Cardinality(ZerosIn(fileobj.data, ScanStart + 1,
                            Min(ScanStart + call.bufsize, Len(fileobj.data))))
           < call.nStrings) =>
        /\ err # ""
        /\ str_list = <<>>

(* C22: string scanner with an explicit start position.  A readCString call
   with startPos = q and at least nStrings zero bytes among the bufsize
   bytes after q returns the nStrings byte strings that begin at q, and,
   unless rewind is asked, leaves the cursor just past the terminator of the
   last of them, at q plus the sum of the strings' lengths plus one each,
   wherever the cursor was before the call. *)
C22_ExplicitStart ==
    (/\ pc = "scanned"
     /\ call.startPos # None
     /\ Cardinality(ZerosIn(fileobj.data, ScanStart + 1,
                            Min(ScanStart + call.bufsize, Len(fileobj.data))))
           >= call.nStrings) =>
        LET data == fileobj.data
            q == call.startPos.int
            string(i) == SubSeq(data, NthZero(data, q, i - 1) + 1,
                                NthZero(data, q, i) - 1)
        IN /\ err = ""
           /\ str_list = [i \in 1..call.nStrings |->
                             IF call.strip THEN string(i)
                             ELSE Append(string(i), 0)]
           /\ ~call.rewind =>
                 /\ fileobj.pos = NthZero(data, q, call.nStrings)
                 /\ fileobj.pos =
                       q + SeqSum([i \in 1..call.nStrings |->
                                      Len(string(i)) + 1])

-----------------------------------------------------------------------------
(* Properties of the structural updater (SpecUpdate).  After Update,
   hdr_before is the mapping update_BV_header was called on, hdrDict the
   mapping it left and hdrDict_old the old mapping; a top-level count is
   read from hdrDict_old (before the edit) and from hdr_before (after). *)

CountName(proto, i) == proto[i].def_or_name.n_fields_name
OldCount(proto, i) == Get(hdrDict_old, CountName(proto, i)).int
NewCount(proto, i) == Get(hdr_before, CountName(proto, i)).int
ListBefore(proto, i) == Get(hdr_before, proto[i].name).list

(* update_BV_header has just run, called the way set_data_shape calls it
   (the old mapping a shallow copy), on a group that agreed with its old
   count *)
Resized(proto, i) ==
    /\ pc = "updated"
    /\ copy_kind = "shallow"
    /\ IsInt(Get(hdrDict_old, CountName(proto, i)))
    /\ OldCount(proto, i) >= 0
    /\ Len(ListBefore(proto, i)) = OldCount(proto, i)

(* C4: reconcile growth.  When the new repeat count exceeds the old one by
   delta >= 1, update_BV_header returns, the group's list has as many
   elements as the new count, the elements present before keep their
   positions and each appended element equals
   _proto2default(nested descriptor, new mapping). *)
C4_Growth ==
    \A i \in Groups(hdr_dict_proto) :
        (Resized(hdr_dict_proto, i)
         /\ NewCount(hdr_dict_proto, i) > OldCount(hdr_dict_proto, i)) =>
            /\ err = ""
            /\ LET value == Get(hdrDict, hdr_dict_proto[i].name).list
                   d == proto2default(hdr_dict_proto[i].format.proto, hdrDict)
               IN /\ Len(value) = NewCount(hdr_dict_proto, i)
                  /\ \A e \in 1..Len(value) :
                        IF e <= OldCount(hdr_dict_proto, i)
                        THEN value[e] = ListBefore(hdr_dict_proto, i)[e]
                        ELSE value[e] = d.hdr_dict

(* C5: reconcile shrink by tail removal.  When the new repeat count is
   smaller than the old one by |delta| >= 1, update_BV_header returns and
   the group's list is exactly the first new-count elements of the list
   before, in order. *)
C5_Shrink ==
    \A i \in Groups(hdr_dict_proto) :
        (Resized(hdr_dict_proto, i)
         /\ NewCount(hdr_dict_proto, i) < OldCount(hdr_dict_proto, i)) =>
            /\ err = ""
            /\ Get(hdrDict, hdr_dict_proto[i].name).list
                  = SubSeq(ListBefore(hdr_dict_proto, i), 1,
                           NewCount(hdr_dict_proto, i))

RECURSIVE Complete(_, _)
(* every name proto declares has an entry in hdr_dict, at every nesting
   level, and a conditional field whose test is false holds its default *)
Complete(proto, hdr_dict) ==
    \A i \in 1..Len(proto) :
        /\ Has(hdr_dict, proto[i].name)
        /\ i \in Groups(proto) =>
              /\ IsList(Get(hdr_dict, proto[i].name))
              /\ \A e \in 1..Len(Get(hdr_dict, proto[i].name).list) :
                    Complete(proto[i].format.proto,
                             Get(hdr_dict, proto[i].name).list[e])
        /\ (/\ i \in Conditionals(proto)
            /\ Has(hdr_dict, proto[i].def_or_name.cond[2])
            /\ Get(hdr_dict, proto[i].def_or_name.cond[2])
                  # proto[i].def_or_name.cond[3]) =>
              Get(hdr_dict, proto[i].name) = proto[i].def_or_name.cond[1]

(* C6: mapping completeness.  After parse_BV_header, _proto2default and
   update_BV_header, in any sequence, every field name the descriptor
   declares has an entry in the mapping and a conditional field whose test
   is false holds the default of its spec tuple. *)
C6_MappingComplete ==
    (/\ pc \in {"parsed", "defaulted", "updated", "updated2"}
     /\ err = "" /\ hdrDict # None) =>
        Complete(hdr_dict_proto, hdrDict)

(* C7: reconcile restores encodability.  Starting from a parsed or
   synthesized mapping, after one edit of a count field or discriminant and
   update_BV_header, pack_BV_header and calc_BV_header_size complete without
   error on the returned mapping and the size is the length of the block. *)
C7_Encodable ==
    (pc = "updated" /\ err = "" /\ n_edits = 1) =>
        /\ binaryblock # None => binaryblock.err = ""
        /\ hdr_size # None => hdr_size.err = ""
        /\ (binaryblock # None /\ hdr_size # None) =>
              hdr_size.size = Len(binaryblock.block)

(* C8: reconcile is idempotent.  update_BV_header applied again to the
   mapping it returned, with the same old mapping and no edit in between,
   completes without error and leaves the mapping as it was. *)
C8_Idempotent ==
    (pc = "updated2") => (err = "" /\ hdrDict = hdr_before)

(* C16: structural underflow.  When update_BV_header is asked to shrink a
   group below zero elements (the new count is negative, or the old count
   exceeds the new one by more than the list holds), it raises instead of
   returning a mapping. *)
C16_StructuralUnderflow ==
    \A i \in Groups(hdr_dict_proto) :
        (/\ pc = "updated"
         /\ copy_kind = "shallow"
         /\ IsInt(Get(hdrDict_old, CountName(hdr_dict_proto, i)))
         /\ NewCount(hdr_dict_proto, i) < OldCount(hdr_dict_proto, i)
         /\ \/ NewCount(hdr_dict_proto, i) < 0
            \/ OldCount(hdr_dict_proto, i) - NewCount(hdr_dict_proto, i)
                  > Len(ListBefore(hdr_dict_proto, i))) =>
            err # ""

(* C27: reconcile leaves the old mapping untouched.  A call of
   update_BV_header changes only the new mapping: every field and every
   nested list of the old mapping is after the call what it was before it,
   whether the old mapping shares nothing with the new one or is the
   shallow copy set_data_shape takes. *)
C27_OldUntouched ==
    [][Update => hdrDict_old' = hdrDict_old]_vars

\* the list of top-level group i in the old mapping when update_BV_header was
\* called: the new mapping's own list object when the old mapping is the
\* shallow copy, the old mapping's list (which the call cannot reach) when
\* the two share nothing
OldListBefore(proto, i) ==
    IF copy_kind = "deep" THEN Get(hdrDict_old, proto[i].name).list
    ELSE ListBefore(proto, i)

(* C21: reconcile recursion.  When update_BV_header is called after the
   count of a group has changed from one non-negative value to another (the
   group agreeing with its old count), it completes without error, for
   growth as well as for shrink; every element that exists in the old and in
   the new mapping is what update_BV_header of the nested descriptor makes
   of the pair of elements at that index, with the old and the new mapping
   as parents; and every element past the old ones equals
   _proto2default(nested descriptor, new mapping). *)
C21_ReconcileRecursion ==
    \A g \in Groups(hdr_dict_proto) :
        (/\ pc = "updated"
         /\ IsInt(Get(hdrDict_old, CountName(hdr_dict_proto, g)))
         /\ IsInt(Get(hdr_before, CountName(hdr_dict_proto, g)))
         /\ OldCount(hdr_dict_proto, g) >= 0
         /\ NewCount(hdr_dict_proto, g) >= 0
         /\ Len(OldListBefore(hdr_dict_proto, g)) = OldCount(hdr_dict_proto, g)
         /\ Len(ListBefore(hdr_dict_proto, g)) = OldCount(hdr_dict_proto, g)) =>
            /\ err = ""
            /\ LET olds == OldListBefore(hdr_dict_proto, g)
                   news == ListBefore(hdr_dict_proto, g)
                   after == Get(hdrDict, hdr_dict_proto[g].name).list
                   nested == hdr_dict_proto[g].format.proto
                   d == proto2default(nested, hdr_before)
               IN \A e \in 1..Len(after) :
                     IF e <= Len(olds)
                     THEN after[e] =
                              update_from(nested, 1,
                                          [old |-> olds[e], new |-> news[e]],
                                          hdrDict_old, hdr_before,
                                          IF copy_kind = "deep" THEN "deep"
                                          ELSE "same").st.new
                     ELSE after[e] = d.hdr_dict

(* C28: the VMP header stays consistent under resizing.  For a header built
   from defaults, after every set_data_shape call with n >= 1, whatever the
   calls before it and whatever the step from the old number of sub-maps,
   the call has completed without error, Maps and ComponentTimePoints have
   as many elements as NrOfSubMaps says, NrOfSubMaps (the first entry of
   get_data_shape) is the n of the call, and write_to and get_data_offset
   complete without error. *)
C28_ShapeConsistent ==
    (pc = "updated" /\ BuiltFromDefaults) =>
        /\ err = ""
        /\ Get(hdrDict, "NrOfSubMaps") = Get(hdr_before, "NrOfSubMaps")
        /\ Len(Get(hdrDict, "Maps").list) = Get(hdrDict, "NrOfSubMaps").int
        /\ Len(Get(hdrDict, "ComponentTimePoints").list)
              = Get(hdrDict, "NrOfSubMaps").int
        /\ binaryblock # None => binaryblock.err = ""
        /\ hdr_size # None => hdr_size.err = ""

(* C18: reconcile of conditional fields. After update_BV_header, for each
   conditional scalar of the top level: when its governing field differs
   between the old and the new mapping and now equals the required value,
   the field holds the default of its spec tuple; when it differs and does
   not equal the required value, the new mapping has no entry for the field
   (the call raising KeyError if there was none to delete); when the
   governing field is the same in both, the field's entry is as it was.  In
   the elements of a group, whose governing fields are the same in both
   mappings, the entries of the conditional fields are as they were. *)
C18_ReconcileConditional ==
    (pc = "updated") =>
        /\ \A i \in Conditionals(hdr_dict_proto) :
              LET name == hdr_dict_proto[i].name
                  c == hdr_dict_proto[i].def_or_name.cond
                  old == Get(hdrDict_old, c[2])
                  new == Get(hdr_before, c[2])
              IN /\ Get(hdrDict, c[2]) = new
                 /\ (old # new /\ new = c[3]) =>
                       /\ err = ""
                       /\ Entry(hdrDict, name) = c[1]
                 /\ (old # new /\ new # c[3]) =>
                       /\ Entry(hdrDict, name) = None
                       /\ err = IF Has(hdr_before, name) THEN ""
                                ELSE "KeyError"
                 /\ (old = new) =>
                       /\ err = ""
                       /\ Entry(hdrDict, name) = Entry(hdr_before, name)
        /\ \A g \in Groups(hdr_dict_proto) :
              LET before == Get(hdr_before, hdr_dict_proto[g].name).list
                  after == Get(hdrDict, hdr_dict_proto[g].name).list
                  nested == hdr_dict_proto[g].format.proto
              IN \A e \in 1..Min(Len(before), Len(after)) :
                    \A i \in Conditionals(nested) :
                        Entry(after[e], nested[i].name)
                            = Entry(before[e], nested[i].name)

\* a discriminant moved away from the required value and then onto it: the
\* field was deleted by the first update and is set by the second
C18_Witness ==
    /\ pc = "updated" /\ err = "" /\ n_edits = 2
    /\ hdr_dict_proto = PROTO_COND(0)
    /\ Get(hdrDict_old, "TypeOfMap") = IntV(3)
    /\ Entry(hdr_before, "NrOfLags") = None
    /\ Get(hdrDict, "TypeOfMap") = IntV(1)
    /\ Get(hdrDict, "NrOfLags") = IntV(7)

-----------------------------------------------------------------------------
(* Properties of the repeat-count lookup (SpecScope) *)

\* the count the scoping rule gives: the local mapping's field when the
\* local mapping has it, the parent mapping's otherwise
ScopedCount(name, local, parent) ==
    IF Has(local, name) THEN Get(local, name).int ELSE Get(parent, name).int

RECURSIVE ScopedLists(_, _, _)
\* every group of hdr_dict, at every level, has as many elements as the
\* scoping rule says (none for a negative count)
ScopedLists(proto, hdr_dict, parent) ==
    \A g \in Groups(proto) :
        LET value == Get(hdr_dict, proto[g].name).list
            n == ScopedCount(proto[g].def_or_name.n_fields_name, hdr_dict,
                             parent)
        IN /\ Len(value) = IF n < 0 THEN 0 ELSE n
           /\ \A e \in 1..Len(value) :
                 ScopedLists(proto[g].format.proto, value[e], hdr_dict)

RECURSIVE ScopedSize(_, _, _)
\* the number of bytes hdr_dict takes when each group is written with as
\* many elements as the scoping rule says
ScopedSize(proto, hdr_dict, parent) ==
    SeqSum([i \in 1..Len(proto) |->
        LET fld == proto[i]
            value == Get(hdr_dict, fld.name)
        IN IF IsZ(fld.format) THEN Len(value.str) + 1
           ELSE IF IsTuple(fld.format)
           THEN LET n == ScopedCount(fld.def_or_name.n_fields_name,
                                     hdr_dict, parent)
                IN SeqSum([e \in 1..(IF n < 0 THEN 0 ELSE n) |->
                              ScopedSize(fld.format.proto, value.list[e],
                                         hdr_dict)])
           ELSE IF IsTuple(fld.def_or_name)
           THEN IF Get(hdr_dict, fld.def_or_name.cond[2])
                      = fld.def_or_name.cond[3]
                THEN calcsize(fld.format) ELSE 0
           ELSE calcsize(fld.format)])

(* C20: repeat-count scoping.  In all five operations the repeat count of a
   group is the field of that name in the local mapping when the local
   mapping has it, whatever the parent holds under the same name, and the
   parent mapping's field otherwise:
     - the mapping parse_BV_header or _proto2default returns has, at every
       level, lists as long as that count;
     - on a mapping whose lists are so, pack_BV_header and
       calc_BV_header_size succeed and give the number of bytes of exactly
       that many elements per group;
     - update_BV_header computes its new count and its delta from that
       count in the new and in the old mapping, at the top level and in
       each element, and a group in an element keeps its length when that
       delta is 0 (even if the parent's field of the same name changed),
       grows when it is positive and shrinks when it is negative. *)
C20_CountScoping ==
    /\ (pc \in {"parsed", "defaulted"} /\ err = "") =>
          ScopedLists(hdr_dict_proto, hdrDict, None)
    /\ (/\ pc \in {"parsed", "defaulted", "updated", "updated2"}
        /\ hdrDict # None
        /\ ScopedLists(hdr_dict_proto, hdrDict, None)) =>
          /\ binaryblock # None =>
                /\ binaryblock.err = ""
                /\ Len(binaryblock.block)
                      = ScopedSize(hdr_dict_proto, hdrDict, None)
          /\ hdr_size # None =>
                hdr_size = [err |-> "",
                            size |-> ScopedSize(hdr_dict_proto, hdrDict,
                                                None)]
    /\ (pc = "updated") =>
          \A g \in Groups(hdr_dict_proto) :
              LET name == CountName(hdr_dict_proto, g)
                  before == ListBefore(hdr_dict_proto, g)
                  after == Get(hdrDict, hdr_dict_proto[g].name).list
                  nested == hdr_dict_proto[g].format.proto
              IN /\ update_counts(hdr_dict_proto[g].def_or_name,
                                  hdrDict_old, hdr_before, None, None)
                       = [err |-> "",
                          delta |-> ScopedCount(name, hdr_before, None)
                                    - ScopedCount(name, hdrDict_old, None),
                          n |-> ScopedCount(name, hdr_before, None)]
                 /\ \A e \in 1..Len(before) : \A h \in Groups(nested) :
                       LET c == update_counts(nested[h].def_or_name,
                                              before[e], before[e],
                                              hdrDict_old, hdr_before)
                           inner == nested[h].def_or_name.n_fields_name
                           was == Len(Get(before[e], nested[h].name).list)
                           is == Len(Get(after[e], nested[h].name).list)
                       IN /\ c = [err |-> "",
                                  delta |->
                                      ScopedCount(inner, before[e],
                                                  hdr_before)
                                      - ScopedCount(inner, before[e],
                                                    hdrDict_old),
                                  n |-> ScopedCount(inner, before[e],
                                                    hdr_before)]
                          /\ (/\ err = ""
                              /\ e <= NewCount(hdr_dict_proto, g)
                              /\ e <= Len(after)) =>
                                /\ c.delta = 0 => is = was
                                /\ c.delta > 0 => is > was
                                /\ c.delta < 0 => is < was

(* a mapping decoded with a local count 0 under a parent count 1, whose
   parent count was then set to 2 and reconciled: the first element still
   has no sub-elements, the appended one has its own default count of
   them, and the mapping is encoded and measured *)
C20_Witness ==
    /\ pc = "updated" /\ err = ""
    /\ hdr_dict_proto = PROTO_SCOPE
    /\ Get(hdrDict_old, "n") = IntV(1)
    /\ Get(hdrDict, "n") = IntV(2)
    /\ Len(Get(hdrDict, "items").list) = 2
    /\ Get(Get(hdrDict, "items").list[1], "n") = IntV(0)
    /\ Get(Get(hdrDict, "items").list[1], "sub") = ListV(<<>>)
    /\ Len(Get(Get(hdrDict, "items").list[2], "sub").list) = 2
    /\ binaryblock # None /\ binaryblock.err = ""
    /\ Len(binaryblock.block) = 5
    /\ hdr_size # None

-----------------------------------------------------------------------------
(* Properties of the encoder on assigned values (SpecAssign) *)

(* the range of each one- and two-byte integer code (the four-byte codes i
   and I, whose ranges end at 2^31 and 2^32, are beyond the integers of the
   model checker; struct treats them as it treats these) *)
Lowest(code) ==
    CASE code = "b" -> -128
      [] code = "B" -> 0
      [] code = "h" -> -32768
Highest(code) ==
    CASE code = "b" -> 127
      [] code = "B" -> 255
      [] code = "h" -> 32767
OutOfRange(code, v) == v < Lowest(code) \/ v > Highest(code)

\* the top-level scalars of hdr_dict that hold an integer outside the range
\* of their code
Unrepresentable(proto, hdr_dict) ==
    {i \in 1..Len(proto) :
        /\ ~IsZ(proto[i].format) /\ ~IsTuple(proto[i].format)
        /\ Has(hdr_dict, proto[i].name)
        /\ IsInt(Get(hdr_dict, proto[i].name))
        /\ OutOfRange(proto[i].format.code, Get(hdr_dict, proto[i].name).int)}

\* the encoder writes field i of hdr_dict: a plain scalar, or a conditional
\* scalar whose test holds
Encoded(proto, hdr_dict, i) ==
    \/ ~IsTuple(proto[i].def_or_name)
    \/ /\ Has(hdr_dict, proto[i].def_or_name.cond[2])
       /\ Get(hdr_dict, proto[i].def_or_name.cond[2])
             = proto[i].def_or_name.cond[3]

(* C17: encoding mismatch.  For each code b, B, h, packing a value
   just outside the code's range raises struct.error and packing the lowest
   and highest value of the range gives bytes that unpack to the same value
   (no wrap-around); and pack_BV_header fails, returning no bytes, whenever
   a scalar that it encodes (a plain scalar, or a conditional scalar whose
   test holds) holds a value outside the range of its code. *)
C17_EncodingMismatch ==
    /\ \A code \in {"b", "B", "h"} :
          /\ \A v \in {Lowest(code) - 1, Highest(code) + 1} :
                pack(Code(code), IntV(v))
                    = [err |-> "struct.error", part |-> <<>>]
          /\ \A v \in {Lowest(code), Highest(code)} :
                /\ pack(Code(code), IntV(v)).err = ""
                /\ unpack(Code(code), pack(Code(code), IntV(v)).part)
                      = [err |-> "", value |-> IntV(v)]
    /\ (hdrDict # None /\ binaryblock # None) =>
          \A i \in Unrepresentable(hdr_dict_proto, hdrDict) :
              Encoded(hdr_dict_proto, hdrDict, i) =>
                  /\ binaryblock.err # ""
                  /\ binaryblock.block = <<>>

\* 256 stored in the one-byte conditional field NrOfLags while its test
\* holds, and the mapping packed
C17_Witness ==
    /\ pc = "assigned" /\ binaryblock # None
    /\ call.name = "NrOfLags" /\ call.value = 256
    /\ Get(hdrDict, "TypeOfMap") = IntV(1)
    /\ binaryblock = [err |-> "struct.error", block |-> <<>>]

(* C17 as first stated: pack_BV_header fails whenever any scalar of the
   mapping is outside the range of its code, encoded or not. *)
C17_AnyScalar ==
    (hdrDict # None /\ binaryblock # None
     /\ Unrepresentable(hdr_dict_proto, hdrDict) # {}) =>
        binaryblock.err # ""

-----------------------------------------------------------------------------
(* Properties of the scalar codes (SpecScalar) *)

\* the number of bytes the format documents for each integer code
Width(code) ==
    CASE code \in {"b", "B"} -> 1
      [] code = "h" -> 2
      [] code \in {"i", "I"} -> 4

(* v lies in the range of the code; every integer of the model checker lies
   in the range of i, and every non-negative one in the range of I *)
Representable(code, v) ==
    CASE code \in {"b", "B", "h"} -> ~OutOfRange(code, v)
      [] code = "i" -> TRUE
      [] code = "I" -> v >= 0

(* the n bytes of v modulo 256^n, least significant first: byte k is
   (v modulo 256^k) \div 256^(k-1), which is (v \div 256^(k-1)) % 256 with
   \div rounding down (two's complement for a negative v) *)
LeastSignificantFirst(v, n) ==
    [k \in 1..n |-> (v \div Pow256(k - 1)) % 256]

(* C23: little-endian fixed-width scalars.  For a plain scalar of code h
   (resp. i, I, b, B) holding a value in the range of the code,
   pack_BV_header succeeds and the scalar's part of the block is exactly the
   2 (resp. 4, 4, 1, 1) bytes of the value modulo 2^width, least significant
   byte first, and parse_BV_header of the block reads exactly these bytes
   for it and returns the same integer; and parse_BV_header of a stream
   reads exactly that many bytes for the scalar (the next field is decoded
   from the byte after them) and returns the integer in the range of the
   code whose bytes, least significant first, they are. *)
C23_LittleEndianScalars ==
    LET fld == hdr_dict_proto[1]
        code == fld.format.code
        w == Width(code)
        next == hdr_dict_proto[2]
    IN /\ (pc = "defaulted" /\ binaryblock # None
           /\ Representable(code, fld.def_or_name.default.int)) =>
             /\ binaryblock =
                   [err |-> "",
                    block |-> LeastSignificantFirst(
                                  fld.def_or_name.default.int, w)
                              \o <<next.def_or_name.default.int>>]
             /\ reparsed # None =>
                   /\ reparsed.err = ""
                   /\ reparsed.f.pos = w + 1
                   /\ reparsed.hdr_dict = hdrDict
                   /\ Get(reparsed.hdr_dict, fld.name) = fld.def_or_name.default
       /\ (pc = "parsed" /\ Len(fileobj.data) >= w + 1) =>
             /\ err = ""
             /\ fileobj.pos = w + 1
             /\ IsInt(Get(hdrDict, fld.name))
             /\ Representable(code, Get(hdrDict, fld.name).int)
             /\ LeastSignificantFirst(Get(hdrDict, fld.name).int, w)
                   = SubSeq(fileobj.data, 1, w)
             /\ Get(hdrDict, next.name) = IntV(fileobj.data[w + 1])
             /\ binaryblock # None =>
                   binaryblock = [err |-> "",
                                  block |-> SubSeq(fileobj.data, 1, w + 1)]

\* -129 as a four-byte signed integer, encoded and decoded again
C23_Witness ==
    /\ pc = "defaulted" /\ reparsed # None
    /\ hdr_dict_proto = PROTO_SCALAR("i", -129)
    /\ binaryblock.block = <<127, 255, 255, 255, 0>>
    /\ Get(reparsed.hdr_dict, "Resolution") = IntV(-129)

-----------------------------------------------------------------------------
(* Properties of the text-header parser (SpecText) *)

(* C30: the text-header parser terminates.  On every file,
   parse_notBin_BV_header eventually returns a mapping or raises an error,
   also when the file ends before a line with a colon has been found for
   every field of the descriptor. *)
C30_TextTerminates == <>(pc \in {"returned", "raised"})

(* C15: header copy independence.  After h2 = h.copy(), whatever is later
   assigned to a field of h's mapping, and whatever update_BV_header does to
   it, every field of h2's mapping keeps the value it had when the copy was
   made. *)
C15_CopyIndependent ==
    (h2 # None) => h2.hdrDict = h2.at_copy

====
